---- MODULE Spec2Model ----
(***************************************************************************)
(* The inter-news-en page script: a feed of articles is fetched once, is   *)
(* rendered as a list of cards and is filtered by the search box.  The     *)
(* repository holds three versions of the script; `variant` says which one *)
(* the page runs:                                                          *)
(*   "docs"  src/docs/app.js       (skeleton, sticky header, error card)   *)
(*   "p0"    src/unnamed/part_000  (no error handling, no chips)           *)
(*   "p1"    src/unnamed/part_001  (fallback document, pending chip)       *)
(*                                                                         *)
(* Text the filter reads is a sequence of one-character strings, so that   *)
(* trim, toLowerCase and includes are computed character by character.     *)
(* Text the script only copies (dates, fixed messages) is a plain string.  *)
(* An article is a record holding exactly the keys its JSON object holds.  *)
(***************************************************************************)
EXTENDS Integers, Sequences, FiniteSets, TLC

VARIABLES
    variant,        \* which version of the script the page loads
    hasHeader,      \* whether the page markup holds a <header> element
    phase,          \* position of the startup IIFE
    fetchResult,    \* how the fetch settled: "none", "rejected", "http_error", "ok"
    pendingBody,    \* <<body>> while res.json() is pending, else << >>
    data,           \* <<document>> once the IIFE holds `data`, else << >>
    listening,      \* the input listener is attached to #search
    list,           \* child nodes of #list, in order
    lastUpdated,    \* text of #last-updated
    search,         \* text of the #search control
    typed,          \* an input event was delivered to the attached listener
    lastRender,     \* arguments of the most recent call of render
    ticking,        \* setupStickyHeader's guard flag
    framePending,   \* animation-frame callbacks requested and not yet run
    scrollY,        \* window.scrollY
    headerScrolled, \* header.classList contains 'scrolled'
    scrollsSinceFrame, \* scroll events delivered since the last frame ran
    toggles         \* classList.toggle calls made by the last frame

vars == <<variant, hasHeader, phase, fetchResult, pendingBody, data, listening,
          list, lastUpdated, search, typed, lastRender, ticking, framePending,
          scrollY, headerScrolled, scrollsSinceFrame, toggles>>

pageVars == <<fetchResult, pendingBody, data, listening, list, lastUpdated,
              lastRender>>

scrollVars == <<ticking, framePending, headerScrolled, toggles>>

-----------------------------------------------------------------------------
(* Bounds of the model *)

MaxArticles == 2

MaxQueryLen == 2

MaxScrolls == 2

(* Program constants *)

SkeletonCount == 8

ScrollThreshold == 8

Variants == {"docs", "p0", "p1"}

-----------------------------------------------------------------------------
(* Strings *)

RECURSIVE SeqsUpTo(_, _)
SeqsUpTo(S, n) ==
    IF n = 0 THEN {<< >>}
    ELSE LET shorter == SeqsUpTo(S, n - 1)
         IN  shorter \cup {Append(s, c) : s \in shorter, c \in S}

ToLowerChar(c) ==
    CASE c = "A" -> "a"
      [] c = "B" -> "b"
      [] OTHER   -> c

ToLowerCase(s) == [i \in 1..Len(s) |-> ToLowerChar(s[i])]

IsWhiteSpace(c) == c = " "

RECURSIVE TrimStart(_)
TrimStart(s) ==
    IF s # << >> /\ IsWhiteSpace(Head(s)) THEN TrimStart(Tail(s)) ELSE s

RECURSIVE TrimEnd(_)
TrimEnd(s) ==
    IF s # << >> /\ IsWhiteSpace(s[Len(s)])
    THEN TrimEnd(SubSeq(s, 1, Len(s) - 1))
    ELSE s

Trim(s) == TrimEnd(TrimStart(s))

Includes(s, q) ==
    \E i \in 0..(Len(s) - Len(q)) : SubSeq(s, i + 1, i + Len(q)) = q

-----------------------------------------------------------------------------
(* Dates *)

Undefined == "undefined"

IsoDate == "2024-01-01T10:00:00Z"

NotADate == "not-a-date"

NaN == -1

\* new Date(d): the time value of d, NaN when d does not parse
DateOf(d) == IF d = IsoDate THEN 1704103200 ELSE NaN

\* Date.prototype.toLocaleString never throws on an invalid date: it answers
\* the text "Invalid Date"
ToLocaleStringThrows(t) == FALSE

ToLocaleString(t, style) ==
    IF t = NaN THEN "Invalid Date"
    ELSE IF style = "medium/short" THEN "Jan 1, 2024, 10:00 AM"
    ELSE "1/1/2024, 10:00:00 AM"

formatDate(d, v) ==
    LET dt == DateOf(d)
    IN  IF ~ToLocaleStringThrows(dt) THEN ToLocaleString(dt, "medium/short")
        ELSE IF v = "p1" THEN (IF d = Undefined THEN "" ELSE d)
        ELSE d

-----------------------------------------------------------------------------
(* Articles and feed documents *)

Has(a, f) == f \in DOMAIN a

\* a.f as a JavaScript condition: present and not the empty string
Truthy(a, f) == Has(a, f) /\ a[f] # << >>

UndefinedText == <<"undefined">>

Art1 == [title_en |-> <<"A", "b">>, summary_en |-> <<"b">>,
         url |-> <<"u", "1">>, published |-> IsoDate]

Art2 == [title_en |-> <<"b">>, summary_en |-> <<"b", "a", " ", "a">>,
         url |-> <<"u", "2">>, local_url |-> <<"l", "2">>,
         published |-> NotADate]

Art3 == [title_it |-> <<"a">>, url |-> <<"a", "3">>]

Art4 == [title_en |-> << >>, title_it |-> <<"A", "a">>,
         url |-> <<"u", "4">>, local_url |-> <<"l", "4">>,
         pending |-> TRUE, published |-> IsoDate]

ArticlePool == {Art1, Art2, Art3, Art4}

Feeds == SeqsUpTo(ArticlePool, MaxArticles)

Documents ==
    {[generated_utc |-> IsoDate, articles |-> f] : f \in Feeds}
    \cup {[generated_utc |-> ""], [generated_utc |-> "", articles |-> << >>]}

Fallback == [generated_utc |-> "", articles |-> << >>]

\* data.articles || []
ArticlesOf(d) == IF Has(d, "articles") THEN d.articles ELSE << >>

Bodies == {[json |-> FALSE]} \cup {[json |-> TRUE, doc |-> d] : d \in Documents}

StatusCodes == {200, 500}

Responses == {[status |-> st, body |-> b] : st \in StatusCodes, b \in Bodies}

\* res.ok
Ok(r) == r.status \in 200..299

QueryChars == {"A", " "}

Queries == SeqsUpTo(QueryChars, MaxQueryLen)

ScrollPositions == {0, ScrollThreshold + 1}

-----------------------------------------------------------------------------
(* Nodes of the list container *)

SkeletonCard == [cls |-> "skel"]

EmptyCard == [cls |-> "card", text |-> "No articles match your search."]

ErrorCard == [cls |-> "card", text |-> "Failed to load articles. Please refresh."]

IsArticleCard(n) == Has(n, "href")

\* list.innerHTML = ''
ClearList(nodes) == << >>

\* variation: the node is inserted before the others
PrependChild(nodes, node) == <<node>> \o nodes

\* list.appendChild(node)
AppendChild(nodes, node) == Append(nodes, node)

renderSkeleton(nodes, count) ==
    LET cleared == ClearList(nodes)
    IN  cleared \o [i \in 1..count |-> SkeletonCard]

-----------------------------------------------------------------------------
(* render *)

\* (filter || '').trim().toLowerCase()
NormalizeFilter(filter) == ToLowerCase(Trim(filter))

\* variation: the filter also searches title_it
MatchesAnyTitle(a, q) ==
    \/ Has(a, "title_en") /\ Includes(ToLowerCase(a.title_en), q)
    \/ Has(a, "title_it") /\ Includes(ToLowerCase(a.title_it), q)
    \/ Has(a, "summary_en") /\ Includes(ToLowerCase(a.summary_en), q)

\* a.title_en?.toLowerCase().includes(q) || a.summary_en?.toLowerCase().includes(q)
Matches(a, q) ==
    \/ Has(a, "title_en") /\ Includes(ToLowerCase(a.title_en), q)
    \/ Has(a, "summary_en") /\ Includes(ToLowerCase(a.summary_en), q)

\* the loop's `continue`
Skipped(a, q) == q # << >> /\ ~Matches(a, q)

IsLocal(a) == Truthy(a, "local_url")

Href(a, v) ==
    IF v # "p0" /\ IsLocal(a) THEN a.local_url
    ELSE IF Has(a, "url") THEN a.url
    ELSE UndefinedText

\* whether the <a> carries target="_blank"
OpensNewTab(a, v) == IF v = "p1" THEN ~IsLocal(a) ELSE TRUE

\* text of the card's status chip, "" when the card has none
Chip(a, v) ==
    CASE v = "docs" -> IF IsLocal(a) THEN "translated page"
                       ELSE "translation pending"
      [] v = "p0"   -> ""
      [] v = "p1"   -> IF Has(a, "pending") /\ a.pending THEN "translation pending"
                       ELSE IF IsLocal(a) THEN "translated page"
                       ELSE ""

\* a.title_en || a.title_it
TitleText(a) ==
    IF Truthy(a, "title_en") THEN a.title_en
    ELSE IF Has(a, "title_it") THEN a.title_it
    ELSE UndefinedText

SummaryText(a) == IF Truthy(a, "summary_en") THEN a.summary_en ELSE << >>

Published(a) == IF Has(a, "published") THEN a.published ELSE Undefined

MakeCard(a, v) ==
    [cls     |-> "card",
     href    |-> Href(a, v),
     newTab  |-> OpensNewTab(a, v),
     title   |-> TitleText(a),
     chip    |-> Chip(a, v),
     date    |-> formatDate(Published(a), v),
     summary |-> SummaryText(a)]

\* for (const a of articles) { ... list.appendChild(div) }
RECURSIVE RenderLoop(_, _, _, _)
RenderLoop(nodes, articles, q, v) ==
    IF articles = << >> THEN nodes
    ELSE IF Skipped(Head(articles), q)
         THEN RenderLoop(nodes, Tail(articles), q, v)
         ELSE RenderLoop(AppendChild(nodes, MakeCard(Head(articles), v)),
                         Tail(articles), q, v)

\* variation: the placeholder is appended whatever the list holds
EmptyStateAlways(nodes) == AppendChild(nodes, EmptyCard)

\* if (!list.childNodes.length) list.appendChild(empty)
EmptyState(nodes) ==
    IF Len(nodes) = 0 THEN AppendChild(nodes, EmptyCard) ELSE nodes

render(nodes, articles, filter, v) ==
    LET cleared == ClearList(nodes)
        q       == NormalizeFilter(filter)
    IN  EmptyState(RenderLoop(cleared, articles, q, v))

RenderCall(articles, filter) ==
    [called |-> TRUE, articles |-> articles, filter |-> filter]

-----------------------------------------------------------------------------
(* The initial state: the page as served, before the script runs *)

Init ==
    /\ variant \in Variants
    /\ hasHeader \in BOOLEAN
    /\ phase = "init"
    /\ fetchResult = "none"
    /\ pendingBody = << >>
    /\ data = << >>
    /\ listening = FALSE
    /\ list = << >>
    /\ lastUpdated = ""
    /\ search = << >>
    /\ typed = FALSE
    /\ lastRender = [called |-> FALSE, articles |-> << >>, filter |-> << >>]
    /\ ticking = FALSE
    /\ framePending = 0
    /\ scrollY = 0
    /\ headerScrolled = FALSE
    /\ scrollsSinceFrame = 0
    /\ toggles = 0

-----------------------------------------------------------------------------
(* Sticky header *)

\* variation: every scroll event requests a frame
onScrollUnguarded ==
    /\ framePending' = framePending + 1
    /\ ticking' = TRUE

\* onScroll: request one animation frame unless one is already requested
onScroll ==
    IF ~ticking
    THEN /\ framePending' = framePending + 1
         /\ ticking' = TRUE
    ELSE UNCHANGED <<framePending, ticking>>

\* setupStickyHeader: returns at once when the page has no header
setupStickyHeader ==
    /\ IF hasHeader THEN onScroll ELSE UNCHANGED <<framePending, ticking>>
    /\ UNCHANGED <<headerScrolled, toggles>>

\* the scroll listener is registered by setupStickyHeader
ScrollListening == variant = "docs" /\ hasHeader /\ phase # "init"

ScrollEvent ==
    /\ scrollsSinceFrame < MaxScrolls
    /\ \E y \in ScrollPositions : scrollY' = y
    /\ IF ScrollListening
       THEN onScroll /\ scrollsSinceFrame' = scrollsSinceFrame + 1
       ELSE UNCHANGED <<framePending, ticking, scrollsSinceFrame>>
    /\ UNCHANGED <<variant, hasHeader, phase, search, typed, headerScrolled,
                   toggles>>
    /\ UNCHANGED pageVars

\* the browser runs every requested frame callback
AnimationFrame ==
    /\ framePending > 0
    /\ headerScrolled' = (scrollY > ScrollThreshold)
    /\ ticking' = FALSE
    /\ toggles' = framePending
    /\ framePending' = 0
    /\ scrollsSinceFrame' = 0
    /\ UNCHANGED <<variant, hasHeader, phase, search, typed, scrollY>>
    /\ UNCHANGED pageVars

-----------------------------------------------------------------------------
(* Startup IIFE *)

\* variation: the input listener is attached, over no articles, before the fetch
StartupEager ==
    /\ phase = "init"
    /\ phase' = "fetching"
    /\ data' = <<[generated_utc |-> "", articles |-> << >>]>>
    /\ listening' = TRUE
    /\ IF variant = "docs"
       THEN /\ IF hasHeader
               THEN framePending' = framePending + 1 /\ ticking' = TRUE
               ELSE UNCHANGED <<framePending, ticking>>
            /\ UNCHANGED <<headerScrolled, toggles>>
            /\ list' = [i \in 1..SkeletonCount |-> SkeletonCard]
       ELSE UNCHANGED <<scrollVars, list>>
    /\ UNCHANGED <<variant, hasHeader, fetchResult, pendingBody,
                   lastUpdated, search, typed, lastRender, scrollY,
                   scrollsSinceFrame>>

\* the IIFE up to `await fetch(...)`
Startup ==
    /\ phase = "init"
    /\ phase' = "fetching"
    /\ IF variant = "docs"
       THEN /\ setupStickyHeader
            /\ list' = renderSkeleton(list, SkeletonCount)
       ELSE UNCHANGED <<scrollVars, list>>
    /\ UNCHANGED <<variant, hasHeader, fetchResult, pendingBody, data,
                   listening, lastUpdated, search, typed, lastRender, scrollY,
                   scrollsSinceFrame>>

\* text of #last-updated without its "Last updated: " prefix ("-": the dash)
LastUpdatedText(d) ==
    IF d.generated_utc # "" THEN ToLocaleString(DateOf(d.generated_utc), "default")
    ELSE "-"

\* the IIFE after `data` is known: status line, first render, input listener
Loaded(d) ==
    /\ data' = <<d>>
    /\ lastUpdated' = LastUpdatedText(d)
    /\ list' = render(list, ArticlesOf(d), << >>, variant)
    /\ lastRender' = RenderCall(ArticlesOf(d), << >>)
    /\ listening' = TRUE
    /\ phase' = "ready"

\* the IIFE's catch block (docs/app.js only)
ShowError ==
    /\ list' = AppendChild(ClearList(list), ErrorCard)
    /\ phase' = "failed"
    /\ UNCHANGED <<data, lastUpdated, lastRender, listening>>

\* the IIFE's promise rejects and nothing handles it (part_000)
Uncaught ==
    /\ phase' = "crashed"
    /\ UNCHANGED <<data, lastUpdated, lastRender, listening, list>>

\* an exception thrown inside loadData, as each version handles it
LoadThrows ==
    CASE variant = "docs" -> ShowError
      [] variant = "p0"   -> Uncaught
      [] variant = "p1"   -> Loaded(Fallback)

FetchRejects ==
    /\ fetchResult' = "rejected"
    /\ pendingBody' = << >>
    /\ LoadThrows

FetchResolves(r) ==
    /\ fetchResult' = IF Ok(r) THEN "ok" ELSE "http_error"
    /\ IF variant = "p1" /\ ~Ok(r)
       THEN pendingBody' = << >> /\ LoadThrows
       ELSE /\ pendingBody' = <<r.body>>
            /\ phase' = "parsing"
            /\ UNCHANGED <<data, lastUpdated, lastRender, listening, list>>

FetchSettles ==
    /\ phase = "fetching"
    /\ \/ FetchRejects
       \/ \E r \in Responses : FetchResolves(r)
    /\ UNCHANGED <<variant, hasHeader, search, typed, scrollY, scrollsSinceFrame>>
    /\ UNCHANGED scrollVars

\* res.json() settles
JsonSettles ==
    /\ phase = "parsing"
    /\ pendingBody' = << >>
    /\ IF pendingBody[1].json THEN Loaded(pendingBody[1].doc) ELSE LoadThrows
    /\ UNCHANGED <<variant, hasHeader, fetchResult, search, typed, scrollY,
                   scrollsSinceFrame>>
    /\ UNCHANGED scrollVars

-----------------------------------------------------------------------------
(* Search box *)

\* variation: the listener filters by the text the box held before the event
onInputStale(value) ==
    /\ list' = render(list, ArticlesOf(data[1]), search, variant)
    /\ lastRender' = RenderCall(ArticlesOf(data[1]), search)
    /\ typed' = TRUE

\* the listener: render(data.articles || [], e.target.value)
onInput(value) ==
    /\ list' = render(list, ArticlesOf(data[1]), value, variant)
    /\ lastRender' = RenderCall(ArticlesOf(data[1]), value)
    /\ typed' = TRUE

InputEvent ==
    /\ \E value \in Queries :
          /\ search' = value
          /\ IF listening THEN onInput(value)
             ELSE UNCHANGED <<list, lastRender, typed>>
    /\ UNCHANGED <<variant, hasHeader, phase, fetchResult, pendingBody, data,
                   listening, lastUpdated, scrollY, scrollsSinceFrame>>
    /\ UNCHANGED scrollVars

-----------------------------------------------------------------------------

Next ==
    \/ Startup
    \/ FetchSettles
    \/ JsonSettles
    \/ InputEvent
    \/ ScrollEvent
    \/ AnimationFrame

Spec == Init /\ [][Next]_vars

-----------------------------------------------------------------------------
(* Vocabulary of the properties *)

\* the list holds the result of the most recent call of render
Rendered == lastRender.called

RenderedArticles == lastRender.articles

RenderedFilter == lastRender.filter

\* the most recent render was unfiltered, so card i was made from article i
Unfiltered == Rendered /\ Trim(RenderedFilter) = << >>

\* the link targets an article can be shown under (distinct across the pool)
LinksOf(a) ==
    {a[f] : f \in {"url", "local_url"} \cap DOMAIN a}

IsCardOf(n, a) == IsArticleCard(n) /\ n.href \in LinksOf(a)

HasCard(a) == \E i \in DOMAIN list : IsCardOf(list[i], a)

ArticleCards == {i \in DOMAIN list : IsArticleCard(list[i])}

FieldIncludes(a, f, q) == Has(a, f) /\ Includes(ToLowerCase(a[f]), q)

\* the filter rule with "Q is empty" read of the query as typed
SelectedAsTyped(a, Q) ==
    \/ Q = << >>
    \/ FieldIncludes(a, "title_en", ToLowerCase(Trim(Q)))
    \/ FieldIncludes(a, "summary_en", ToLowerCase(Trim(Q)))

\* the filter rule with "Q is empty" read of the trimmed query
SelectedAsTrimmed(a, Q) ==
    \/ Trim(Q) = << >>
    \/ FieldIncludes(a, "title_en", ToLowerCase(Trim(Q)))
    \/ FieldIncludes(a, "summary_en", ToLowerCase(Trim(Q)))

FilterRule(Selected(_, _)) ==
    Rendered =>
        /\ \A i \in DOMAIN RenderedArticles :
              HasCard(RenderedArticles[i])
                  <=> Selected(RenderedArticles[i], RenderedFilter)
        /\ Cardinality(ArticleCards)
              = Cardinality({i \in DOMAIN RenderedArticles :
                               Selected(RenderedArticles[i], RenderedFilter)})

-----------------------------------------------------------------------------
(* C1: filter correctness *)

\* C1 as stated: an article of the rendered sequence gets a card iff the query
\* Q is empty or Q, trimmed and lower-cased, occurs in its lower-cased
\* title_en or summary_en; a missing field never matches.  Refuted by a query
\* of blanks over an article that has neither field: the code shows its card.
C1_FilterAsTyped == FilterRule(SelectedAsTyped)

\* C1 amended: an article of the rendered sequence gets a card iff the query Q
\* is empty after trimming, or Q trimmed and lower-cased occurs in its
\* lower-cased title_en or summary_en; a missing title_en or summary_en never
\* matches, and title_it and url are never searched.
C1_FilterCorrect == FilterRule(SelectedAsTrimmed)

\* a query that needs trimming and lower-casing selects Art1 by its title and
\* leaves out Art3, whose title_it and url both contain the query
C1_Witness ==
    /\ Rendered
    /\ RenderedFilter = <<" ", "A">>
    /\ RenderedArticles = <<Art3, Art1>>
    /\ HasCard(Art1)
    /\ ~HasCard(Art3)

-----------------------------------------------------------------------------
(* C2: load failure *)

StartupEnded == phase \in {"ready", "failed", "crashed"}

\* C2: when the fetch rejects or the response has an error status, startup
\* ends with no uncaught error and the list holds either the single "No
\* articles match your search." card of the fallback document or the single
\* "Failed to load articles. Please refresh." card.
C2_LoadFailureHandled ==
    (StartupEnded /\ fetchResult \in {"rejected", "http_error"}) =>
        /\ phase # "crashed"
        /\ list \in {<<EmptyCard>>, <<ErrorCard>>}

-----------------------------------------------------------------------------
(* C3: link precedence *)

\* C3: a rendered article with both local_url and url links to local_url in
\* the same tab (no target="_blank"); a rendered article with only url links
\* to url in a new tab.
C3_LinkPrecedence ==
    Unfiltered =>
        \A i \in DOMAIN RenderedArticles :
            LET a == RenderedArticles[i]
                c == list[i]
            IN  /\ (Truthy(a, "local_url") /\ Truthy(a, "url"))
                      => (c.href = a.local_url /\ ~c.newTab)
                /\ (~Has(a, "local_url") /\ Truthy(a, "url"))
                      => (c.href = a.url /\ c.newTab)

-----------------------------------------------------------------------------
(* C4: the list follows the search box *)

\* what the page is to show for a sequence of articles and a search text
Shown(articles, Q) ==
    LET kept == SelectSeq(articles, LAMBDA a : SelectedAsTrimmed(a, Q))
    IN  IF kept = << >> THEN <<EmptyCard>>
        ELSE [i \in DOMAIN kept |-> MakeCard(kept[i], variant)]

\* C4: once input events have reached the listener, the list holds exactly
\* the cards of the loaded articles for the current search text and nothing
\* else, and the loaded document never changes after the load.
C4_ListFollowsSearch ==
    /\ [](typed => list = Shown(ArticlesOf(data[1]), search))
    /\ [][data # << >> => data' = data]_vars

\* the listener rendered an empty search text: both articles of the feed are
\* shown, though some search text would show only one of them
C4_Witness ==
    /\ typed
    /\ search = << >>
    /\ Len(ArticlesOf(data[1])) = 2
    /\ Len(list) = 2
    /\ \A i \in DOMAIN list : IsArticleCard(list[i])
    /\ \E Q \in Queries : Len(Shown(ArticlesOf(data[1]), Q)) = 1
                          /\ Shown(ArticlesOf(data[1]), Q) # <<EmptyCard>>

-----------------------------------------------------------------------------
(* C5: empty state *)

\* C5: after a render the list is the single placeholder card "No articles
\* match your search." when no article card was produced, and holds article
\* cards only, no placeholder, when at least one was produced.
C5_EmptyState ==
    Rendered =>
        IF ArticleCards = {}
        THEN list = <<EmptyCard>>
        ELSE \A i \in DOMAIN list : IsArticleCard(list[i])

\* a filter that matches none of the articles of a non-empty feed
C5_Witness ==
    /\ Rendered
    /\ RenderedArticles # << >>
    /\ Trim(RenderedFilter) # << >>
    /\ list = <<EmptyCard>>

-----------------------------------------------------------------------------
(* C6: order preservation *)

StrictlyIncreasing(f) ==
    \A j, k \in DOMAIN f : j < k => f[j] < f[k]

\* C6: the cards of a render are the cards of a subsequence of the articles:
\* card k is made from article f[k] for a strictly increasing f, so the
\* filter removes articles and never reorders or duplicates them.
C6_OrderPreserved ==
    (Rendered /\ ArticleCards # {}) =>
        \E f \in [DOMAIN list -> DOMAIN RenderedArticles] :
            /\ StrictlyIncreasing(f)
            /\ \A k \in DOMAIN list : IsCardOf(list[k], RenderedArticles[f[k]])

\* two different articles both match the filter and both have cards
C6_Witness ==
    /\ Rendered
    /\ RenderedArticles = <<Art2, Art1>>
    /\ RenderedFilter = <<"A">>
    /\ Len(list) = 2
    /\ IsCardOf(list[1], Art2)
    /\ IsCardOf(list[2], Art1)

-----------------------------------------------------------------------------
(* C7: date fallback *)

\* C7: the date shown for an absent published value is the empty string, and
\* the date shown for "not-a-date" is that raw value or the empty string.
C7_DateFallback ==
    Unfiltered =>
        \A i \in DOMAIN RenderedArticles :
            LET d == Published(RenderedArticles[i])
            IN  /\ d = Undefined => list[i].date = ""
                /\ d = NotADate => list[i].date \in {NotADate, ""}

-----------------------------------------------------------------------------
(* C8: status chip *)

IsPending(a) == Has(a, "pending") /\ a.pending

\* C8: every card carries the chip "translation pending" when its article has
\* no local_url or is flagged pending, and "translated page" otherwise.
C8_StatusChip ==
    Unfiltered =>
        \A i \in DOMAIN RenderedArticles :
            LET a == RenderedArticles[i]
            IN  list[i].chip = IF ~Truthy(a, "local_url") \/ IsPending(a)
                               THEN "translation pending"
                               ELSE "translated page"

-----------------------------------------------------------------------------
(* C9: one frame callback at a time *)

\* C9: at most one animation-frame callback is pending, the guard is set
\* exactly while it is pending, and a frame toggles the header's class at
\* most once.
C9_OneFramePending ==
    /\ framePending <= 1
    /\ ticking <=> framePending = 1
    /\ toggles <= 1

\* further scroll events arrived while the callback was pending
C9_Witness ==
    /\ framePending = 1
    /\ scrollsSinceFrame >= 2

-----------------------------------------------------------------------------
(* C10: input before or without a load *)

\* the script holds a document parsed from the response and has rendered it
LoadSucceeded ==
    /\ phase = "ready"
    /\ fetchResult \in {"ok", "http_error"}
    /\ data # << >>
    /\ Rendered

\* C10: an input event changes the list only when the load has succeeded, so
\* one that arrives while the fetch is pending leaves the list as it is, and
\* the "Failed to load articles. Please refresh." card is never replaced.
C10_InputOnlyAfterLoad ==
    [][/\ (list' # list /\ InputEvent) => LoadSucceeded
       /\ list = <<ErrorCard>> => list' = <<ErrorCard>>]_vars

\* text was typed while the fetch was pending and the skeleton is still shown
C10_Witness ==
    /\ variant = "docs"
    /\ phase = "fetching"
    /\ search # << >>
    /\ list = [i \in 1..SkeletonCount |-> SkeletonCard]

====
